---- MODULE Spec2Model ----
(***************************************************************************)
(* Model of the two modules of dolphindes shown in src/:                   *)
(*   src/dolphindes/types.py            (type aliases)                     *)
(*   src/dolphindes/cvxopt/__init__.py  (re-exports and __all__)           *)
(* Each module body is a straight-line sequence of statements; executing a *)
(* statement binds names in the module's namespace.  Two clients use the   *)
(* loaded modules: one annotates a value with the aliases (membership of a *)
(* value in the type an alias is bound to), one does a star-import of the  *)
(* package, which is what __all__ governs.                                 *)
(***************************************************************************)
EXTENDS Integers, Sequences, FiniteSets, TLC

VARIABLES typesPc, typesNs, cvxPc, cvxNs, v, verdict, starState, client

vars == <<typesPc, typesNs, cvxPc, cvxNs, v, verdict, starState, client>>

\* Largest number of dimensions of the arrays drawn as inputs.
MaxNdim == 2

Range(s) == {s[i] : i \in DOMAIN s}

(***************************************************************************)
(* Type expressions and bindings.                                          *)
(***************************************************************************)
NoType == [tag |-> "none", mod |-> "", name |-> "", args |-> <<>>]

\* numpy.typing.NDArray[scalar]: ndarray whose dtype's scalar type is a
\* subclass of `scalar`.
NDArrayT(scalar) == [tag |-> "NDArray", mod |-> "numpy", name |-> scalar, args |-> <<>>]

\* a class object such as scipy.sparse.sparray
ClassT(m, c) == [tag |-> "class", mod |-> m, name |-> c, args |-> <<>>]

\* typing.Union[a, b]
UnionT(a, b) == [tag |-> "Union", mod |-> "typing", name |-> "", args |-> <<a, b>>]

\* what a name of a namespace is bound to
Binding(k, o, t, l) == [kind |-> k, origin |-> o, ty |-> t, items |-> l]

EmptyNs == [n \in {} |-> Binding("none", "", NoType, <<>>)]

\* name = value in a namespace: a later binding replaces an earlier one
Bind(ns, n, b) == (n :> b) @@ ns

RECURSIVE BindAllFrom(_, _, _)
\* from <m> import n1, n2, ...
BindAllFrom(ns, m, names) ==
    IF names = <<>> THEN ns
    ELSE BindAllFrom(Bind(ns, Head(names), Binding("import", m, NoType, <<>>)),
                     m, Tail(names))

\* name lookup: the names a statement reads must be bound (else NameError)
Bound(ns, names) == names \subseteq DOMAIN ns

(***************************************************************************)
(* Class hierarchies of the libraries the aliases are built on.            *)
(***************************************************************************)
Parent(c) ==
    CASE c = "bool_" -> "generic"
      [] c = "complex64" -> "complexfloating"
      [] c = "complex128" -> "complexfloating"
      [] c = "complexfloating" -> "inexact"
      [] c = "float64" -> "floating"
      [] c = "floating" -> "inexact"
      [] c = "inexact" -> "number"
      [] c = "int64" -> "signedinteger"
      [] c = "signedinteger" -> "integer"
      [] c = "integer" -> "number"
      [] c = "number" -> "generic"
      [] c = "csr_array" -> "sparray"
      [] c = "coo_array" -> "sparray"
      [] c = "csr_matrix" -> "spmatrix"
      [] OTHER -> "object"

RECURSIVE IsSubclass(_, _)
IsSubclass(c, d) == c = d \/ (c # "object" /\ IsSubclass(Parent(c), d))

RECURSIVE Member(_, _)
\* is the array value u of the type t
Member(t, u) ==
    CASE t.tag = "NDArray" ->
            IsSubclass(u.cls, "ndarray") /\ IsSubclass(u.dtype, t.name)
      [] t.tag = "class" -> IsSubclass(u.cls, t.name)
      [] t.tag = "Union" -> \E i \in DOMAIN t.args : Member(t.args[i], u)
      [] OTHER -> FALSE

(***************************************************************************)
(* The inputs: array values of a bounded universe.                         *)
(***************************************************************************)
DTypes == {"bool_", "complex64", "complex128", "float64", "int64"}

Universe ==
    {[cls |-> "ndarray", dtype |-> d, ndim |-> n] : d \in DTypes, n \in 0..MaxNdim}
    \cup {[cls |-> c, dtype |-> d, ndim |-> n] :
             c \in {"csr_array", "coo_array"}, d \in DTypes, n \in 1..MaxNdim}
    \cup {[cls |-> "csr_matrix", dtype |-> d, ndim |-> 2] : d \in DTypes}

(***************************************************************************)
(* src/dolphindes/types.py                                                 *)
(***************************************************************************)
\* the source lines of the statements of the module body, in order
TypesStmtLines == <<1, 3, 5, 6, 7, 9, 10, 11, 12>>

Failed == 0

TypesDone == Len(TypesStmtLines) + 1

AtTypes(line) ==
    /\ typesPc \in DOMAIN TypesStmtLines
    /\ TypesStmtLines[typesPc] = line

\* variant: the alias statements sit in a loop
TypesAdvanceLoop(pc) == IF pc = Len(TypesStmtLines) THEN 6 ELSE pc + 1

\* straight-line code: the statement after the one at pc
TypesAdvance(pc) == pc + 1

AliasBinding(t) == Binding("alias", "dolphindes.types", t, <<>>)

\* The right-hand sides of lines 9..12, evaluated in the namespace ns.

\* variant: NDArray[np.complex128]
ComplexArrayExprNarrow(ns) == NDArrayT("complex128")

ComplexArrayExpr(ns) == NDArrayT("complexfloating")

ComplexGridExpr(ns) == NDArrayT("complexfloating")

\* variant: NDArray[np.complexfloating], a copy of the line above
BoolGridExprCopied(ns) == NDArrayT("complexfloating")

BoolGridExpr(ns) == NDArrayT("bool_")

\* variant: Union[BoolGrid, sp.sparray]
SparseDenseExprBool(ns) ==
    UnionT(ns["BoolGrid"].ty, ClassT(ns["sp"].origin, "sparray"))

SparseDenseExpr(ns) ==
    UnionT(ns["ComplexGrid"].ty, ClassT(ns["sp"].origin, "sparray"))

TypesRest == <<cvxPc, cvxNs, v, verdict, starState, client>>

TypesDoc ==
    /\ AtTypes(1)
    /\ typesNs' = Bind(typesNs, "__doc__", Binding("doc", "dolphindes.types", NoType, <<>>))
    /\ typesPc' = TypesAdvance(typesPc)
    /\ UNCHANGED TypesRest

ImportTyping ==
    /\ AtTypes(3)
    /\ typesNs' = BindAllFrom(typesNs, "typing", <<"TypeAlias", "Union">>)
    /\ typesPc' = TypesAdvance(typesPc)
    /\ UNCHANGED TypesRest

ImportNumpy ==
    /\ AtTypes(5)
    /\ typesNs' = Bind(typesNs, "np", Binding("import", "numpy", NoType, <<>>))
    /\ typesPc' = TypesAdvance(typesPc)
    /\ UNCHANGED TypesRest

ImportScipySparse ==
    /\ AtTypes(6)
    /\ typesNs' = Bind(typesNs, "sp", Binding("import", "scipy.sparse", NoType, <<>>))
    /\ typesPc' = TypesAdvance(typesPc)
    /\ UNCHANGED TypesRest

ImportNDArray ==
    /\ AtTypes(7)
    /\ typesNs' = BindAllFrom(typesNs, "numpy.typing", <<"NDArray">>)
    /\ typesPc' = TypesAdvance(typesPc)
    /\ UNCHANGED TypesRest

\* `name: TypeAlias = expr`, where expr reads the names `reads`
AliasStmt(line, name, reads, t) ==
    /\ AtTypes(line)
    /\ IF Bound(typesNs, reads \cup {"TypeAlias"})
       THEN /\ typesNs' = Bind(typesNs, name, AliasBinding(t))
            /\ typesPc' = TypesAdvance(typesPc)
       ELSE /\ typesPc' = Failed
            /\ typesNs' = typesNs
    /\ UNCHANGED TypesRest

\* variant: the module without the ComplexArray line
BindComplexArraySkip ==
    /\ AtTypes(9)
    /\ typesNs' = typesNs
    /\ typesPc' = TypesAdvance(typesPc)
    /\ UNCHANGED TypesRest

BindComplexArray ==
    AliasStmt(9, "ComplexArray", {"NDArray", "np"}, ComplexArrayExpr(typesNs))

BindComplexGrid ==
    AliasStmt(10, "ComplexGrid", {"NDArray", "np"}, ComplexGridExpr(typesNs))

BindBoolGrid ==
    AliasStmt(11, "BoolGrid", {"NDArray", "np"}, BoolGridExpr(typesNs))

BindSparseDense ==
    /\ AtTypes(12)
    /\ IF Bound(typesNs, {"TypeAlias", "Union", "ComplexGrid", "sp"})
       THEN /\ typesNs' = Bind(typesNs, "SparseDense",
                               AliasBinding(SparseDenseExpr(typesNs)))
            /\ typesPc' = TypesAdvance(typesPc)
       ELSE /\ typesPc' = Failed
            /\ typesNs' = typesNs
    /\ UNCHANGED TypesRest

(***************************************************************************)
(* src/dolphindes/cvxopt/__init__.py                                       *)
(***************************************************************************)
CvxStmtLines == <<1, 3, 4, 12>>

CvxDone == Len(CvxStmtLines) + 1

AtCvx(line) ==
    /\ cvxPc \in DOMAIN CvxStmtLines
    /\ CvxStmtLines[cvxPc] = line

CvxAdvance(pc) == pc + 1

\* line 3
OptimizationNames == <<"BFGS", "Alt_Newton_GD">>

\* variant: run_gcd is not imported
QcqpNamesShort ==
    <<"DenseSharedProjQCQP", "SparseSharedProjQCQP", "add_constraints",
      "merge_lead_constraints">>

\* lines 4-10
QcqpNames ==
    <<"DenseSharedProjQCQP", "SparseSharedProjQCQP", "add_constraints",
      "merge_lead_constraints", "run_gcd">>

\* variant: BFGS listed twice, run_gcd left out
AllListDup ==
    <<"SparseSharedProjQCQP", "DenseSharedProjQCQP", "BFGS", "Alt_Newton_GD",
      "merge_lead_constraints", "add_constraints", "BFGS">>

\* lines 12-20
AllList ==
    <<"SparseSharedProjQCQP", "DenseSharedProjQCQP", "BFGS", "Alt_Newton_GD",
      "merge_lead_constraints", "add_constraints", "run_gcd">>

CvxRest == <<typesPc, typesNs, v, verdict, starState, client>>

CvxDoc ==
    /\ AtCvx(1)
    /\ cvxNs' = Bind(cvxNs, "__doc__", Binding("doc", "dolphindes.cvxopt", NoType, <<>>))
    /\ cvxPc' = CvxAdvance(cvxPc)
    /\ UNCHANGED CvxRest

\* `from .m import names`: the submodule becomes an attribute of the
\* package, then the names are bound
FromSibling(ns, m, names) ==
    BindAllFrom(Bind(ns, m, Binding("submodule", m, NoType, <<>>)), m, names)

ImportOptimization ==
    /\ AtCvx(3)
    /\ cvxNs' = FromSibling(cvxNs, "optimization", OptimizationNames)
    /\ cvxPc' = CvxAdvance(cvxPc)
    /\ UNCHANGED CvxRest

ImportQcqp ==
    /\ AtCvx(4)
    /\ cvxNs' = FromSibling(cvxNs, "qcqp", QcqpNames)
    /\ cvxPc' = CvxAdvance(cvxPc)
    /\ UNCHANGED CvxRest

BindAll ==
    /\ AtCvx(12)
    /\ cvxNs' = Bind(cvxNs, "__all__", Binding("list", "dolphindes.cvxopt", NoType, AllList))
    /\ cvxPc' = CvxAdvance(cvxPc)
    /\ UNCHANGED CvxRest

(***************************************************************************)
(* Uses of the loaded modules.                                             *)
(***************************************************************************)
AliasNames == {n \in DOMAIN typesNs : typesNs[n].kind = "alias"}

\* annotate the value v with an alias: is v of the aliased type
Annotate(a) ==
    /\ typesPc = TypesDone
    /\ a \in AliasNames
    /\ a \notin DOMAIN verdict
    /\ verdict' = (a :> Member(typesNs[a].ty, v)) @@ verdict
    /\ UNCHANGED <<typesPc, typesNs, cvxPc, cvxNs, v, starState, client>>

\* `from dolphindes.cvxopt import *`: binds the names of __all__ in the
\* client, AttributeError when one of them is not an attribute
StarImport ==
    /\ cvxPc = CvxDone
    /\ starState = "idle"
    /\ LET names == Range(cvxNs["__all__"].items)
       IN IF names \subseteq DOMAIN cvxNs
          THEN /\ client' = [n \in names |-> cvxNs[n]]
               /\ starState' = "ok"
          ELSE /\ client' = client
               /\ starState' = "error"
    /\ UNCHANGED <<typesPc, typesNs, cvxPc, cvxNs, v, verdict>>

Init ==
    /\ typesPc = 1
    /\ typesNs = EmptyNs
    /\ cvxPc = 1
    /\ cvxNs = EmptyNs
    /\ v \in Universe
    /\ verdict = [n \in {} |-> FALSE]
    /\ starState = "idle"
    /\ client = EmptyNs

Next ==
    \/ TypesDoc
    \/ ImportTyping
    \/ ImportNumpy
    \/ ImportScipySparse
    \/ ImportNDArray
    \/ BindComplexArray
    \/ BindComplexGrid
    \/ BindBoolGrid
    \/ BindSparseDense
    \/ CvxDoc
    \/ ImportOptimization
    \/ ImportQcqp
    \/ BindAll
    \/ \E a \in {"ComplexArray", "ComplexGrid", "BoolGrid", "SparseDense"} : Annotate(a)
    \/ StarImport

Spec == Init /\ [][Next]_vars

TypesLoaded == typesPc = TypesDone

CvxLoaded == cvxPc = CvxDone

(***************************************************************************)
(* Properties.                                                             *)
(***************************************************************************)
Exported == Range(cvxNs["__all__"].items)

Imported == {n \in DOMAIN cvxNs : cvxNs[n].kind = "import"}

ImportedFrom(m) == {n \in Imported : cvxNs[n].origin = m}

TypeOf(a) == typesNs[a].ty

DenseComplex(u) == u.cls = "ndarray" /\ u.dtype \in {"complex64", "complex128"}

Sparray(u) == u.cls \in {"csr_array", "coo_array"}

\* t with every occurrence of the type `old` as a union member replaced by `new`
Subst(t, old, new) ==
    IF t = old THEN new
    ELSE [t EXCEPT !.args = [i \in DOMAIN t.args |->
                                IF t.args[i] = old THEN new ELSE t.args[i]]]

\* C1: once the package is loaded, __all__ holds exactly the seven names
\* SparseSharedProjQCQP, DenseSharedProjQCQP, BFGS, Alt_Newton_GD,
\* merge_lead_constraints, add_constraints, run_gcd: all seven present, no
\* other, none twice; a star-import binds exactly those seven.
C1_ExportList ==
    CvxLoaded =>
        LET a == cvxNs["__all__"].items
        IN /\ Range(a) = {"SparseSharedProjQCQP", "DenseSharedProjQCQP", "BFGS",
                          "Alt_Newton_GD", "merge_lead_constraints",
                          "add_constraints", "run_gcd"}
           /\ Len(a) = 7
           /\ \A i, j \in DOMAIN a : i # j => a[i] # a[j]
           /\ starState = "ok" => Cardinality(DOMAIN client) = 7

C1_Witness ==
    /\ CvxLoaded
    /\ starState = "ok"
    /\ DOMAIN client = Exported

\* C2: once the package is loaded, the names bound by its import statements
\* are exactly the exported names; BFGS and Alt_Newton_GD come from
\* optimization, the other five from qcqp; no name is imported from both.
C2_ImportsAreExports ==
    CvxLoaded =>
        /\ Imported = Exported
        /\ {cvxNs[n].origin : n \in Imported} = {"optimization", "qcqp"}
        /\ ImportedFrom("optimization") = {"BFGS", "Alt_Newton_GD"}
        /\ ImportedFrom("qcqp") =
               {"DenseSharedProjQCQP", "SparseSharedProjQCQP", "add_constraints",
                "merge_lead_constraints", "run_gcd"}
        /\ Range(OptimizationNames) \cap Range(QcqpNames) = {}
        /\ starState # "error"

C2_Witness ==
    /\ CvxLoaded
    /\ starState = "ok"
    /\ client["run_gcd"].origin = "qcqp"
    /\ client["BFGS"].origin = "optimization"

\* C3: once the types module is loaded, a value is a SparseDense iff it is a
\* ComplexGrid (a dense complex array) or a scipy.sparse.sparray; a dense
\* boolean array is not a SparseDense.
C3_SparseDenseUnion ==
    TypesLoaded =>
        /\ \A u \in Universe :
              /\ Member(TypeOf("SparseDense"), u)
                    <=> (Member(TypeOf("ComplexGrid"), u) \/ Sparray(u))
              /\ Member(TypeOf("SparseDense"), u) <=> (DenseComplex(u) \/ Sparray(u))
              /\ (u.cls = "ndarray" /\ u.dtype = "bool_")
                    => ~Member(TypeOf("SparseDense"), u)
        /\ "SparseDense" \in DOMAIN verdict
              => (verdict["SparseDense"] <=> (DenseComplex(v) \/ Sparray(v)))

C3_Witness ==
    /\ TypesLoaded
    /\ v.cls = "ndarray"
    /\ v.dtype = "bool_"
    /\ "SparseDense" \in DOMAIN verdict
    /\ ~verdict["SparseDense"]

\* C4: once the types module is loaded, ComplexGrid and ComplexArray are the
\* same type, the dense arrays of complex floating-point numbers: the same
\* values belong to both, and SparseDense with ComplexGrid replaced by
\* ComplexArray has the same members.
C4_ComplexAliasesEqual ==
    TypesLoaded =>
        /\ \A u \in Universe :
              /\ Member(TypeOf("ComplexGrid"), u) <=> Member(TypeOf("ComplexArray"), u)
              /\ Member(TypeOf("ComplexGrid"), u) <=> DenseComplex(u)
              /\ Member(Subst(TypeOf("SparseDense"), TypeOf("ComplexGrid"),
                              TypeOf("ComplexArray")), u)
                    <=> Member(TypeOf("SparseDense"), u)
        /\ {"ComplexGrid", "ComplexArray"} \subseteq DOMAIN verdict
              => verdict["ComplexGrid"] = verdict["ComplexArray"]

C4_Witness ==
    /\ TypesLoaded
    /\ v.dtype = "complex64"
    /\ v.cls = "ndarray"
    /\ {"ComplexGrid", "ComplexArray"} \subseteq DOMAIN verdict
    /\ verdict["ComplexGrid"]
    /\ verdict["ComplexArray"]

\* C5: once the types module is loaded, a dense array is a BoolGrid iff its
\* element kind is boolean (and nothing that is not a dense array is one),
\* and BoolGrid is not the type of ComplexGrid/ComplexArray.
C5_BoolGrid ==
    TypesLoaded =>
        /\ \A u \in Universe :
              Member(TypeOf("BoolGrid"), u) <=> (u.cls = "ndarray" /\ u.dtype = "bool_")
        /\ TypeOf("BoolGrid") # TypeOf("ComplexGrid")
        /\ TypeOf("BoolGrid") # TypeOf("ComplexArray")
        /\ \E u \in Universe :
              Member(TypeOf("BoolGrid"), u) /\ ~Member(TypeOf("ComplexGrid"), u)
        /\ \E u \in Universe :
              ~Member(TypeOf("BoolGrid"), u) /\ Member(TypeOf("ComplexGrid"), u)
        /\ "BoolGrid" \in DOMAIN verdict
              => (verdict["BoolGrid"] <=> (v.cls = "ndarray" /\ v.dtype = "bool_"))

C5_Witness ==
    /\ TypesLoaded
    /\ v.cls = "ndarray"
    /\ v.dtype = "bool_"
    /\ v.ndim = 2
    /\ "BoolGrid" \in DOMAIN verdict
    /\ verdict["BoolGrid"]

\* C6: once the types module is loaded it declares exactly the four aliases
\* ComplexArray, ComplexGrid, BoolGrid, SparseDense, and SparseDense has a
\* member type of scipy.sparse, which the module imports (before the alias
\* is bound).
C6_FourAliases ==
    /\ TypesLoaded =>
          /\ AliasNames = {"ComplexArray", "ComplexGrid", "BoolGrid", "SparseDense"}
          /\ \E i \in DOMAIN TypeOf("SparseDense").args :
                TypeOf("SparseDense").args[i].mod = "scipy.sparse"
          /\ \A a \in AliasNames \ {"SparseDense"} :
                /\ TypeOf(a).mod # "scipy.sparse"
                /\ TypeOf(a).args = <<>>
    /\ "SparseDense" \in DOMAIN typesNs =>
          \E n \in DOMAIN typesNs :
              typesNs[n].kind = "import" /\ typesNs[n].origin = "scipy.sparse"

C6_Witness ==
    /\ TypesLoaded
    /\ DOMAIN verdict = {"ComplexArray", "ComplexGrid", "BoolGrid", "SparseDense"}
    /\ Sparray(v)
    /\ verdict["SparseDense"]
    /\ ~verdict["ComplexArray"]

\* C7: loading only binds names: every binding is a docstring, an import, a
\* submodule, a type alias or a list, never a function or a class; the
\* declared names are the four aliases and the seven re-exports with
\* __all__; each statement runs at most once, in order (no branch, no
\* loop); no step changes or removes an existing binding; and once a module
\* is loaded no step changes its namespace.
C7_BindingsFrozen ==
    [][/\ typesPc' \in {typesPc, typesPc + 1}
       /\ cvxPc' \in {cvxPc, cvxPc + 1}
       /\ \A n \in DOMAIN typesNs : n \in DOMAIN typesNs' /\ typesNs'[n] = typesNs[n]
       /\ \A n \in DOMAIN cvxNs : n \in DOMAIN cvxNs' /\ cvxNs'[n] = cvxNs[n]
       /\ \A n \in DOMAIN typesNs' :
             typesNs'[n].kind \in {"doc", "import", "alias"}
       /\ \A n \in DOMAIN cvxNs' :
             cvxNs'[n].kind \in {"doc", "import", "submodule", "list"}
       /\ TypesLoaded => typesNs' = typesNs
       /\ CvxLoaded => cvxNs' = cvxNs
       /\ TypesLoaded' =>
             Cardinality({n \in DOMAIN typesNs' : typesNs'[n].kind = "alias"}) = 4
       /\ CvxLoaded' =>
             /\ Cardinality({n \in DOMAIN cvxNs' : cvxNs'[n].kind = "import"}) = 7
             /\ {n \in DOMAIN cvxNs' : cvxNs'[n].kind = "list"} = {"__all__"}
      ]_vars

C7_Witness ==
    /\ TypesLoaded
    /\ CvxLoaded
    /\ starState = "ok"
    /\ Cardinality(DOMAIN verdict) = 4

TypeOK ==
    /\ typesPc \in 0..TypesDone
    /\ cvxPc \in 0..CvxDone
    /\ v \in Universe
    /\ DOMAIN verdict \subseteq AliasNames
    /\ starState \in {"idle", "ok", "error"}
====
